---- MODULE Spec2Model ----
(***************************************************************************)
(* Time-series engine of data-time-series-weather.                         *)
(*                                                                         *)
(* Three versions of getTimeSeriesForColumn live in the sources:           *)
(*   - the current dense one   (src/src/geonames-to-geojson.js 190-247),   *)
(*   - the old dense one       (src/unnamed/part_004 60-131),              *)
(*   - the sparse one          (src/unnamed/part_004 187-246).             *)
(* Each is modelled as its own operation over the same stored rows.        *)
(* Beside the engine the module holds fetchWeatherCron (part_005), the     *)
(* greedy spatial filter of geonames-to-geojson, parseRiverHeights         *)
(* (README.md), the connection module sqlite.js (part_003) and the         *)
(* generate-datasets scripts, each with a specification of its own.        *)
(*                                                                         *)
(* Instants are integers: milliseconds since 2025-06-01T00:00:00.000Z, so  *)
(* that three weeks of milliseconds fit TLC's 32-bit integers.  An ISO     *)
(* string with a zone designator is the record [ms, off]: the instant and  *)
(* the designator's offset in minutes (0 for "Z").                         *)
(***************************************************************************)
EXTENDS Integers, Sequences, FiniteSets, TLC

VARIABLES
  now,        \* the wall clock read by new Date()
  hostOffset, \* UTC offset (minutes) of the zone the node process runs in
  table,      \* rows of weather_data: [auroraId, generationTime, value]
  call,       \* what the last call computed on the way: range, rows read
  doc,        \* the document the last call returned
  dbInstance, \* let dbInstance = null: the module's one connection
  previous,   \* the call and the document of the run before this one
  features,   \* fetchWeatherCron: geojson.features, the locations to fetch
  started,    \* eachLimit: how many features were handed to the iteratee
  running,    \* eachLimit: the features whose iteratee has not called back
  attempts,   \* how many times the iteratee was started, per feature
  cronPc,     \* where fetchWeatherCron stands
  html,       \* parseRiverHeights: the page given to it
  riverData,  \* parseRiverHeights: the array `data` it returned
  candidates, \* geonames-to-geojson: `locations`, filtered and sorted
  cursor,     \* geonames-to-geojson: candidates the filter loop has passed
  acceptedLocations, \* geonames-to-geojson: the places accepted so far
  connections, \* sqlite.js: how many DatabaseSync objects were constructed
  outputs,    \* generate-datasets: the passes of the loop and their files
  loop        \* generate-datasets: where the two nested loops stand

cronVars == <<features, started, running, attempts, cronPc>>
riverVars == <<html, riverData>>
geoVars == <<candidates, cursor, acceptedLocations>>
sqliteVars == <<connections>>
genVars == <<outputs, loop>>

\* the state of the programs beside the engine
otherVars == <<previous, cronVars, riverVars, geoVars, sqliteVars, genVars>>

vars == <<now, hostOffset, table, call, doc, dbInstance, otherVars>>

----------------------------------------------------------------------------
(* Units and program constants *)

MsPerSecond == 1000
MsPerMinute == 60 * MsPerSecond
MsPerHour   == 60 * MsPerMinute
MsPerDay    == 24 * MsPerHour

\* const TIMEZONE_HOURS = +10; "Australia/Brisbane" is UTC+10 all year
TIMEZONE_HOURS == 10
TzMs == TIMEZONE_HOURS * MsPerHour
TzMinutes == TIMEZONE_HOURS * 60

\* const BUCKET_SIZE_MIN = 30;
BUCKET_SIZE_MIN == 30

\* SQL NULL / JS null.  Measurements are kept as the text of the number: the
\* engine never computes with them
NULL == "null"

CronIdle ==
  /\ features = <<>>
  /\ started = 0
  /\ running = <<>>
  /\ attempts = <<>>
  /\ cronPc = "idle"

RiverIdle == html = <<>> /\ riverData = [returned |-> FALSE]

GeoIdle == candidates = <<>> /\ cursor = 0 /\ acceptedLocations = <<>>

\* the programs beside the engine have not run
SqliteIdle == connections = 0

GenIdle == outputs = <<>> /\ loop = [pc |-> "idle"]

OthersIdle ==
  /\ previous = [fn |-> "none"]
  /\ CronIdle /\ RiverIdle /\ GeoIdle /\ SqliteIdle /\ GenIdle

\* 2025-06-<day>T<h>:<m>:<s>.<ms>Z as an instant
Utc(day, h, m, s, ms) ==
  (day - 1) * MsPerDay + h * MsPerHour + m * MsPerMinute + s * MsPerSecond + ms

----------------------------------------------------------------------------
(* date-fns / date-fns-tz, as getDayBoundaries uses them.  A "zoned" Date  *)
(* is a Date whose local fields read the Brisbane wall clock; it is kept   *)
(* here as the wall clock in milliseconds.                                 *)

toZonedTimeNoShift(t) == t

toZonedTime(t) == t + TzMs

fromZonedTime(wall) == wall - TzMs

addDays(wall, n) == wall + n * MsPerDay

startOfDay(wall) == wall - (wall % MsPerDay)

endOfDayNextMidnight(wall) == startOfDay(wall) + MsPerDay

\* setHours(23, 59, 59, 999)
endOfDay(wall) == startOfDay(wall) + 23 * MsPerHour + 59 * MsPerMinute
                    + 59 * MsPerSecond + 999

\* Date#toISOString: UTC, millisecond precision
toISOString(t) == [ms |-> t, off |-> 0]

\* new Date(iso).getTime() / parseISO(iso): the instant of an ISO string
parseISO(iso) == iso.ms

getDayBoundaries(clock, offset) ==
  LET brisbaneNow == toZonedTime(clock)
      target      == addDays(brisbaneNow, offset)
  IN  [ start |-> toISOString(fromZonedTime(startOfDay(target))),
        end   |-> toISOString(fromZonedTime(endOfDay(target))) ]

----------------------------------------------------------------------------
(* SQLite's date functions and text ordering, as the queries use them *)

\* unixepoch(X): whole seconds, the fraction dropped
unixepoch(iso) == iso.ms \div MsPerSecond

\* datetime(X): the text 'YYYY-MM-DD HH:MM:SS' in UTC, the fraction dropped;
\* two such texts compare as their seconds do
datetime(iso) == iso.ms \div MsPerSecond

\* What an ISO string reads: its wall clock, then its zone designator
isoLocal(iso) == iso.ms + iso.off * MsPerMinute

\* '+' (0x2B) sorts before 'Z' (0x5A)
zoneRank(iso) == IF iso.off = 0 THEN 1 ELSE 0

\* a <= b as text (binary collation of SQLite, code-unit order of Array#sort)
textLeq(a, b) ==
  \/ isoLocal(a) < isoLocal(b)
  \/ isoLocal(a) = isoLocal(b) /\ zoneRank(a) <= zoneRank(b)

Range(s) == {s[i] : i \in DOMAIN s}

\* Every order a result set S can be returned in: all rows once each
Perms(S) ==
  {s \in [1..Cardinality(S) -> S] : Range(s) = S}

\* the ORDER BY clause left out
orderByNothing(S) == Perms(S)

\* ORDER BY unixepoch(generationTime) ASC: rows of the same second come in
\* an order SQL leaves open
orderByUnixepoch(S) ==
  {s \in Perms(S) : \A i, j \in DOMAIN s :
      i < j => unixepoch(s[i].generationTime) <= unixepoch(s[j].generationTime)}

\* ORDER BY generationTime ASC: text order
orderByText(S) ==
  {s \in Perms(S) : \A i, j \in DOMAIN s :
      i < j => textLeq(s[i].generationTime, s[j].generationTime)}

\* WHERE unixepoch(generationTime) BETWEEN unixepoch(?) AND unixepoch(?)
whereBetweenUnixepoch(tbl, start, end) ==
  {r \in tbl : /\ unixepoch(r.generationTime) >= unixepoch(start)
               /\ unixepoch(r.generationTime) <= unixepoch(end)}

\* WHERE datetime(generationTime) >= datetime(start)
\*   AND datetime(generationTime) <  datetime(end)
whereDatetimeHalfOpen(tbl, startDate, endDate) ==
  {r \in tbl : /\ datetime(r.generationTime) >= datetime(startDate)
               /\ datetime(r.generationTime) <  datetime(endDate)}

----------------------------------------------------------------------------
(* Bucketing and formatting *)

\* Date#getMinutes / Date#setMinutes work on the host zone's wall clock
bucketDateCeil(host, isoString) ==
  LET date  == parseISO(isoString)
      local == date + host * MsPerMinute
      mins  == (local % MsPerHour) \div MsPerMinute
      set   == local - (local % MsPerHour)
                 + (((mins + BUCKET_SIZE_MIN - 1) \div BUCKET_SIZE_MIN)
                      * BUCKET_SIZE_MIN) * MsPerMinute
  IN  toISOString(set - host * MsPerMinute)

bucketDate(host, isoString) ==
  LET date  == parseISO(isoString)
      local == date + host * MsPerMinute
      mins  == (local % MsPerHour) \div MsPerMinute
      set   == local - (local % MsPerHour)
                 + ((mins \div BUCKET_SIZE_MIN) * BUCKET_SIZE_MIN) * MsPerMinute
  IN  toISOString(set - host * MsPerMinute)

\* Math.floor(date.getMinutes() / 30) * 30: the width is written out
bucketTo10Minutes(host, isoString) ==
  LET date  == parseISO(isoString)
      local == date + host * MsPerMinute
      mins  == (local % MsPerHour) \div MsPerMinute
      set   == local - (local % MsPerHour) + ((mins \div 30) * 30) * MsPerMinute
  IN  toISOString(set - host * MsPerMinute)

\* formatInTimeZone(d, TZ, "yyyy-MM-dd'T'HH:mm:ssXXX"): seconds, "+10:00"
formatInTimeZone(t) == [ms |-> t - (t % MsPerSecond), off |-> TzMinutes]

\* toAEST: shift by ten hours, print as UTC, swap "Z" for "+10:00"
toAEST(dateStr) == [ms |-> parseISO(dateStr), off |-> TzMinutes]

----------------------------------------------------------------------------
(* getTimeSeriesForColumn, current dense version                           *)

\* first-write-wins
RECURSIVE dataMapFirstWins(_, _, _)
dataMapFirstWins(host, rows, n) ==
  IF n = 0 THEN [k \in {} |-> NULL]
  ELSE LET dm  == dataMapFirstWins(host, rows, n - 1)
           key == <<bucketDate(host, rows[n].generationTime), rows[n].auroraId>>
       IN  [k \in DOMAIN dm \cup {key} |->
              IF k \in DOMAIN dm THEN dm[k] ELSE rows[n].value]

\* for (const row of rows) { ... dataMap.get(bucket)[row.auroraId] = row.value }
\* after the first n rows; the key <<bucket, auroraId>> stands for the two
\* levels of the map
RECURSIVE dataMapOf(_, _, _)
dataMapOf(host, rows, n) ==
  IF n = 0 THEN [k \in {} |-> NULL]
  ELSE LET dm  == dataMapOf(host, rows, n - 1)
           key == <<bucketDate(host, rows[n].generationTime), rows[n].auroraId>>
       IN  [k \in DOMAIN dm \cup {key} |->
              IF k = key THEN rows[n].value ELSE dm[k]]

\* Array.from(uniqueBuckets).sort(): code-unit order of the UTC strings
sortText(S) ==
  CHOOSE s \in Perms(S) : \A i, j \in DOMAIN s : i < j => textLeq(s[i], s[j])

\* a pivot that walks the buckets in the opposite order to the timestamps
pivotValuesReversed(dataMap, sortedBuckets, loc) ==
  [i \in DOMAIN sortedBuckets |->
     LET b == sortedBuckets[Len(sortedBuckets) + 1 - i]
     IN  IF <<b, loc>> \in DOMAIN dataMap THEN dataMap[<<b, loc>>] ELSE NULL]

\* sortedBuckets.map((b) => dataMap.get(b)[loc] ?? null)
pivotValues(dataMap, sortedBuckets, loc) ==
  [i \in DOMAIN sortedBuckets |->
     IF <<sortedBuckets[i], loc>> \in DOMAIN dataMap
     THEN dataMap[<<sortedBuckets[i], loc>>]
     ELSE NULL]

\* the pivot and the returned object
denseDocument(clock, host, rows) ==
  LET dataMap       == dataMapOf(host, rows, Len(rows))
      uniqueBuckets == {bucketDate(host, rows[i].generationTime) : i \in DOMAIN rows}
      locations     == {rows[i].auroraId : i \in DOMAIN rows}
      sortedBuckets == sortText(uniqueBuckets)
      values(loc)   == pivotValues(dataMap, sortedBuckets, loc)
      \* .filter(([_, values]) => values.some((v) => v !== null))
      kept          == {loc \in locations :
                          \E i \in DOMAIN sortedBuckets : values(loc)[i] # NULL}
  IN  [ createdDate |-> toISOString(clock),
        timestamps  |-> [i \in DOMAIN sortedBuckets |->
                           formatInTimeZone(parseISO(sortedBuckets[i]))],
        series      |-> [loc \in kept |-> values(loc)] ]

\* lines 198-213: the rows the query can return, in each order it can
denseRows(tbl, range) ==
  orderByUnixepoch(whereBetweenUnixepoch(tbl, range.start, range.end))

----------------------------------------------------------------------------
(* getTimeSeriesForColumn, old dense version                               *)

\* const getDayBoundaries = (dayOffset = 0) => ... { startDate, endDate }
getDayBoundariesOld(clock, dayOffset) ==
  LET brisbaneNow      == toZonedTime(clock)
      targetDay        == addDays(brisbaneNow, dayOffset)
      brisbaneDayStart == startOfDay(targetDay)
      brisbaneDayEnd   == endOfDay(targetDay)
  IN  [ start |-> toISOString(fromZonedTime(brisbaneDayStart)),
        end   |-> toISOString(fromZonedTime(brisbaneDayEnd)) ]

\* [...new Set(seq)]: the distinct members in order of first appearance
RECURSIVE firstSeen(_, _)
firstSeen(seq, n) ==
  IF n = 0 THEN <<>>
  ELSE LET prev == firstSeen(seq, n - 1)
       IN  IF seq[n] \in Range(prev) THEN prev ELSE Append(prev, seq[n])

\* rowsWithBucket.reduce(...): acc[row.timeBucket][row.auroraId] = row.value
RECURSIVE dataMapOld(_, _, _)
dataMapOld(host, rows, n) ==
  IF n = 0 THEN [k \in {} |-> NULL]
  ELSE LET acc == dataMapOld(host, rows, n - 1)
           key == <<bucketTo10Minutes(host, rows[n].generationTime),
                    rows[n].auroraId>>
       IN  [k \in DOMAIN acc \cup {key} |->
              IF k = key THEN rows[n].value ELSE acc[k]]

oldDenseDocument(clock, host, locationsList, rows) ==
  IF Len(rows) = 0 THEN [timestamps |-> <<>>, series |-> [l \in {} |-> <<>>]]
  ELSE
  LET timeBucket    == [i \in DOMAIN rows |->
                          bucketTo10Minutes(host, rows[i].generationTime)]
      uniqueBuckets == firstSeen(timeBucket, Len(rows))
      dataMap       == dataMapOld(host, rows, Len(rows))
      data(loc)     == [i \in DOMAIN uniqueBuckets |->
                          IF <<uniqueBuckets[i], loc>> \in DOMAIN dataMap
                          THEN dataMap[<<uniqueBuckets[i], loc>>]
                          ELSE NULL]
      hasData(loc)  == \E i \in DOMAIN uniqueBuckets : data(loc)[i] # NULL
  IN  [ createdDate |-> toISOString(clock),
        timestamps  |-> [i \in DOMAIN uniqueBuckets |-> toAEST(uniqueBuckets[i])],
        series      |-> [loc \in {l \in locationsList : hasData(l)} |-> data(loc)] ]

\* SELECT DISTINCT auroraId FROM weather_data
oldLocationsList(tbl) == {r.auroraId : r \in tbl}

oldDenseRows(tbl, range) ==
  orderByText(whereDatetimeHalfOpen(tbl, range.start, range.end))

----------------------------------------------------------------------------
(* getTimeSeriesForColumn, sparse version                                  *)

\* const x = Math.floor((currentMs - startMs) / (1000 * 60));
minuteIndex(startMs, isoString) ==
  (parseISO(isoString) - startMs) \div MsPerMinute

\* pairs numbered by the row's place in the result set instead of its minute
RECURSIVE sparsePairsIndexed(_, _, _, _)
sparsePairsIndexed(startMs, rows, loc, n) ==
  IF n = 0 THEN <<>>
  ELSE LET prev == sparsePairsIndexed(startMs, rows, loc, n - 1)
       IN  IF rows[n].auroraId = loc
           THEN Append(prev, <<n, rows[n].value>>)
           ELSE prev

\* series[row.auroraId].push([x, row.value]) over the first n rows
RECURSIVE sparsePairs(_, _, _, _)
sparsePairs(startMs, rows, loc, n) ==
  IF n = 0 THEN <<>>
  ELSE LET prev == sparsePairs(startMs, rows, loc, n - 1)
       IN  IF rows[n].auroraId = loc
           THEN Append(prev, <<minuteIndex(startMs, rows[n].generationTime),
                               rows[n].value>>)
           ELSE prev

\* startDate taken from the clock instead of the day's start
sparseDocumentStartNow(clock, start, rows) ==
  LET startMs == parseISO(start)
  IN  [ updatedDate |-> formatInTimeZone(clock),
        startDate   |-> formatInTimeZone(clock),
        series      |-> [loc \in {rows[i].auroraId : i \in DOMAIN rows} |->
                           sparsePairs(startMs, rows, loc, Len(rows))] ]

sparseDocument(clock, start, rows) ==
  LET startMs == parseISO(start)
  IN  [ updatedDate |-> formatInTimeZone(clock),
        startDate   |-> formatInTimeZone(parseISO(start)),
        series      |-> [loc \in {rows[i].auroraId : i \in DOMAIN rows} |->
                           sparsePairs(startMs, rows, loc, Len(rows))] ]

sparseRows(tbl, range) ==
  orderByUnixepoch(whereBetweenUnixepoch(tbl, range.start, range.end))

----------------------------------------------------------------------------
(* Bounds and inputs *)

\* rows the table can hold
MaxRows == 3

\* getDayBoundaries is tried with the offsets -MaxDayOffset .. MaxDayOffset
MaxDayOffset == 3

Locations == {"A", "B"}

\* Object.keys(SCHEMA_MAPPING): the columns of weather_data
SCHEMA_MAPPING ==
  { "auroraId", "fetchTime", "averageWindSpdKnots", "averageWindSpeedKm",
    "cloud", "cloudOktas", "dayName", "dewPointC", "endTime",
    "feelsLikeTempC", "generationTime", "gustKmh", "maximumGustDir",
    "maximumGustKmh", "maximumGustSpdKnots", "maximumTempC",
    "maximumTempLocalTime", "minimumTempC", "minimumTempLocalTime",
    "precipitationSince9amMM", "pressure", "pressureMSLP", "qnhPressure",
    "rainHour", "rainTen", "rainfall24hr", "relativeHumidityPct",
    "startTime", "tempC", "visibilityKm", "wetBulbTemp", "windDir",
    "windDirDeg", "windGustSpdKnots" }

\* values of --column: a measurement of the schema and a name that is none
Columns == {"tempC", "humidity"}

Values == {NULL, "24.3", "24.8"}

\* 2025-06-10T00:00:00+10:00, the Brisbane midnight the readings lie around
Midnight10 == Utc(9, 14, 0, 0, 0)

\* generationTime strings: the last second of 9 June, midnight, and minutes
\* 1, 5 and 31 of 10 June; upstream writes some with "+10:00", some with "Z"
GenTimes ==
  { [ms |-> Midnight10 - MsPerSecond,      off |-> TzMinutes],
    [ms |-> Midnight10,                    off |-> TzMinutes],
    [ms |-> Midnight10 + 1 * MsPerMinute,  off |-> TzMinutes],
    [ms |-> Midnight10 + 5 * MsPerMinute,  off |-> 0],
    [ms |-> Midnight10 + 31 * MsPerMinute, off |-> 0] }

Rows == [auroraId : Locations, generationTime : GenTimes, value : Values]

\* dayStart values the datasets are generated for: today and yesterday
DayStarts == {0, -1}

\* the clock during a generation run: 2025-06-10T23:30:00+10:00
EngineClocks == {Utc(10, 13, 30, 0, 0)}

\* zones the process runs in: UTC and Australia/Eucla (+08:45)
HostOffsets == {0, 525}

\* clocks getDayBoundaries is tried at, around a Brisbane midnight
DayClocks ==
  { Utc(10, 0, 0, 0, 0),  Utc(10, 13, 30, 0, 0), Utc(10, 13, 59, 59, 999),
    Utc(10, 14, 0, 0, 0), Utc(10, 23, 59, 59, 999), Utc(11, 3, 0, 0, 0) }

----------------------------------------------------------------------------
(* The engine as a state machine: rows are collected, then datasets are     *)
(* generated from them (the pipeline runs the fetch before the prepare      *)
(* steps)                                                                   *)

NoCall == [fn |-> "none"]
NoDoc  == [series |-> <<>>]

Init ==
  /\ now \in EngineClocks
  /\ hostOffset \in HostOffsets
  /\ table = {}
  /\ call = NoCall
  /\ doc = NoDoc
  /\ dbInstance = NULL
  /\ OthersIdle

\* A row reaches weather_data.  Of its columns the engine reads auroraId,
\* generationTime and the selected measurement; fetchTime, the other half of
\* the table's unique key, is not read by any query here and is left out.
Store(row) ==
  /\ call.fn = "none"
  /\ Cardinality(table) < MaxRows
  /\ row \notin table
  /\ table' = table \cup {row}
  /\ UNCHANGED <<now, hostOffset, call, doc, dbInstance, otherVars>>

\* initializeDatabase(): if (dbInstance) return dbInstance; otherwise connect
\* and create the table when it is not there
initializeDatabase(db) == IF db # NULL THEN db ELSE "open"

\* db.prepare() of a SELECT that names `column`: SQLite compiles the statement
\* against the table made from SCHEMA_MAPPING and throws "no such column"
\* for a name the table does not have
prepareThrows(column) == column \notin SCHEMA_MAPPING

\* what a call that ended in an exception leaves: no document; `read` names
\* the statements that were run before it
Thrown(fn, column, dayStart, read) ==
  [fn |-> fn, column |-> column, dayStart |-> dayStart, threw |-> TRUE,
   read |-> read]

\* One behaviour is one run of the command line: a single call on the rows
\* collected so far
GenerateDense(column, dayStart) ==
  /\ call.fn = "none"
  /\ IF column \notin SCHEMA_MAPPING
     THEN /\ call' = Thrown("dense", column, dayStart, {})
          /\ UNCHANGED <<doc, dbInstance>>
     ELSE /\ dbInstance' = initializeDatabase(dbInstance)
          /\ LET range == getDayBoundaries(now, dayStart)
             IN  \E rows \in denseRows(table, range) :
                   /\ call' = [fn |-> "dense", column |-> column,
                               threw |-> FALSE, clock |-> now,
                               dayStart |-> dayStart,
                               start |-> range.start, end |-> range.end,
                               rows |-> rows]
                   /\ doc' = denseDocument(now, hostOffset, rows)
  /\ UNCHANGED <<now, hostOffset, table, otherVars>>

GenerateOldDense(column, dayStart) ==
  /\ call.fn = "none"
  /\ dbInstance' = initializeDatabase(dbInstance)
  /\ IF prepareThrows(column)
     THEN /\ call' = Thrown("oldDense", column, dayStart, {"locationsList"})
          /\ UNCHANGED doc
     ELSE LET range == getDayBoundariesOld(now, dayStart)
          IN  \E rows \in oldDenseRows(table, range) :
                /\ call' = [fn |-> "oldDense", column |-> column,
                            threw |-> FALSE, clock |-> now,
                            dayStart |-> dayStart,
                            start |-> range.start, end |-> range.end,
                            rows |-> rows]
                /\ doc' = oldDenseDocument(now, hostOffset,
                                           oldLocationsList(table), rows)
  /\ UNCHANGED <<now, hostOffset, table, otherVars>>

GenerateSparse(column, dayStart) ==
  /\ call.fn = "none"
  /\ dbInstance' = initializeDatabase(dbInstance)
  /\ IF prepareThrows(column)
     THEN /\ call' = Thrown("sparse", column, dayStart, {})
          /\ UNCHANGED doc
     ELSE LET range == getDayBoundaries(now, dayStart)
          IN  \E rows \in sparseRows(table, range) :
                /\ call' = [fn |-> "sparse", column |-> column,
                            threw |-> FALSE, clock |-> now,
                            dayStart |-> dayStart,
                            start |-> range.start, end |-> range.end,
                            rows |-> rows]
                /\ doc' = sparseDocument(now, range.start, rows)
  /\ UNCHANGED <<now, hostOffset, table, otherVars>>

\* column = "tempC", the default of the parameter and of the command line
Next ==
  \/ \E row \in Rows : Store(row)
  \/ \E d \in DayStarts : GenerateDense("tempC", d)
  \/ \E d \in DayStarts : GenerateOldDense("tempC", d)
  \/ \E d \in DayStarts : GenerateSparse("tempC", d)

Spec == Init /\ [][Next]_vars

----------------------------------------------------------------------------
(* getTimeSeriesForColumn over the column parameter, on a table of at most  *)
(* one row                                                                  *)

InitColumn ==
  /\ now \in EngineClocks
  /\ hostOffset \in HostOffsets
  /\ table \in {{}} \cup {{r} : r \in Rows}
  /\ call = NoCall
  /\ doc = NoDoc
  /\ dbInstance = NULL
  /\ OthersIdle

NextColumn ==
  \/ \E c \in Columns, d \in DayStarts : GenerateDense(c, d)
  \/ \E c \in Columns, d \in DayStarts : GenerateOldDense(c, d)
  \/ \E c \in Columns, d \in DayStarts : GenerateSparse(c, d)

SpecColumn == InitColumn /\ [][NextColumn]_vars

----------------------------------------------------------------------------
(* The command line run twice on the same table of at most two rows: each   *)
(* run is a new process, with its own connection and its own clock reading  *)

InitTwice ==
  /\ now \in EngineClocks
  /\ hostOffset \in HostOffsets
  /\ table \in {{}} \cup {{r, q} : r, q \in Rows}
  /\ call = NoCall
  /\ doc = NoDoc
  /\ dbInstance = NULL
  /\ OthersIdle

\* the first run has ended; the next one starts at once or a minute later
NextRun ==
  /\ call.fn # "none"
  /\ previous.fn = "none"
  /\ previous' = call @@ [doc |-> doc]
  /\ call' = NoCall
  /\ doc' = NoDoc
  /\ dbInstance' = NULL
  /\ now' \in {now, now + MsPerMinute}
  /\ UNCHANGED <<hostOffset, table, cronVars, riverVars, geoVars, sqliteVars,
                 genVars>>

\* a run of either kind, on the default column
Run ==
  \/ \E d \in DayStarts : GenerateDense("tempC", d)
  \/ \E d \in DayStarts : GenerateOldDense("tempC", d)
  \/ \E d \in DayStarts : GenerateSparse("tempC", d)

NextTwice ==
  \/ Run
  \/ NextRun

SpecTwice == InitTwice /\ [][NextTwice]_vars

----------------------------------------------------------------------------
(* One run on a table of at most three rows *)

InitPivot ==
  /\ now \in EngineClocks
  /\ hostOffset \in HostOffsets
  /\ table \in {{}} \cup {{r, q, p} : r, q, p \in Rows}
  /\ call = NoCall
  /\ doc = NoDoc
  /\ dbInstance = NULL
  /\ OthersIdle

NextPivot == Run

SpecPivot == InitPivot /\ [][NextPivot]_vars

----------------------------------------------------------------------------
(* getDayBoundaries alone, over clocks and offsets *)

InitDay ==
  /\ now \in DayClocks
  /\ hostOffset = 0
  /\ table = {}
  /\ call = NoCall
  /\ doc = NoDoc
  /\ dbInstance = NULL
  /\ OthersIdle

Tick ==
  /\ \E t \in DayClocks : t > now /\ now' = t
  /\ UNCHANGED <<hostOffset, table, call, doc, dbInstance, otherVars>>

ResolveDay(offset) ==
  LET range == getDayBoundaries(now, offset)
  IN  /\ call' = [fn |-> "getDayBoundaries", clock |-> now, dayStart |-> offset,
                  start |-> range.start, end |-> range.end, rows |-> <<>>]
      /\ UNCHANGED <<now, hostOffset, table, doc, dbInstance, otherVars>>

ResolveDayOld(offset) ==
  LET range == getDayBoundariesOld(now, offset)
  IN  /\ call' = [fn |-> "getDayBoundariesOld", clock |-> now,
                  dayStart |-> offset,
                  start |-> range.start, end |-> range.end, rows |-> <<>>]
      /\ UNCHANGED <<now, hostOffset, table, doc, dbInstance, otherVars>>

NextDay ==
  \/ Tick
  \/ \E offset \in -MaxDayOffset..MaxDayOffset : ResolveDay(offset)
  \/ \E offset \in -MaxDayOffset..MaxDayOffset : ResolveDayOld(offset)

SpecDay == InitDay /\ [][NextDay]_vars

----------------------------------------------------------------------------
(* fetchWeatherCron: every feature of the GeoJSON file is fetched and       *)
(* appended, at most `limit` of them at a time                              *)

\* features the GeoJSON file can hold
MaxFeatures == 4

\* eachLimit(geojson.features, 3, ...)
limit == 3

\* a feature's properties.auroraId: present or missing
Features == [auroraId : Locations \cup {NULL}]

FeatureLists == UNION {[1..n -> Features] : n \in 0..MaxFeatures}

\* values[0] of the response: one reading
Reading == [generationTime |-> [ms |-> Midnight10, off |-> TzMinutes],
            value |-> "24.3"]

\* how the part of fetchWeatherForLocation after `await queryFn(query)` can
\* go: the query rejects, the response has no data, append inserts, append's
\* statement fails
QueryOutcomes == {"rejected", "noData", "stored", "insertError"}

Min(a, b) == IF a < b THEN a ELSE b

\* every slot taken, whatever the limit
freeSlotsUnbounded(run) == MaxFeatures

\* while (running < limit && !done): the iteratees eachLimit may still start
freeSlots(run) == limit - Cardinality(DOMAIN run)

\* the iteratee's promise rejects when the query did
iterateeRejectsUncaught(outcome) == outcome = "rejected"

\* await fetchWeatherForLocation(feature, queryFn).catch((e) => console.log(e)):
\* the iteratee never rejects
iterateeRejects(outcome) == FALSE

\* fetchWeatherForLocation up to its first await: without an auroraId it warns
\* and returns, otherwise the query is sent
firstAwait(feature) ==
  IF feature.auroraId = NULL THEN "returning" ELSE "query"

\* eachLimit's replenish(): hands the next features to the iteratee while a
\* slot is free; gives the new <<started, running, attempts>>
replenish(list, st, run, att) ==
  LET count == Min(freeSlots(run), Len(list) - st)
      new   == (st + 1)..(st + count)
  IN  << st + count,
         [k \in DOMAIN run \cup new |->
            IF k \in new THEN firstAwait(list[k]) ELSE run[k]],
         [k \in DOMAIN att |->
            IF k \in new THEN Append(att[k], "pending") ELSE att[k]] >>

\* REPLACE instead of IGNORE on a conflict of the unique key
insertOrReplace(tbl, row) ==
  {r \in tbl : ~(r.auroraId = row.auroraId /\ r.fetchTime = row.fetchTime)}
    \cup {row}

\* INSERT OR IGNORE under UNIQUE (auroraId, fetchTime)
insertOrIgnore(tbl, row) ==
  IF \E r \in tbl : r.auroraId = row.auroraId /\ r.fetchTime = row.fetchTime
  THEN tbl
  ELSE tbl \cup {row}

\* closeDatabase(): if (dbInstance) { dbInstance.close(); dbInstance = null }
\* DatabaseSync#close throws when the database is not open, and then the
\* assignment is not reached
closeDatabase(db) == IF db = "closed" THEN db ELSE NULL

InitCron ==
  /\ now \in EngineClocks
  /\ hostOffset = 0
  /\ table = {}
  /\ call = NoCall
  /\ doc = NoDoc
  /\ dbInstance = NULL
  /\ OthersIdle

\* fetchWeatherCron from its start to the return of the eachLimit call: the
\* database is opened, the file read, the first iteratees started; an empty
\* list ends the batch at once
fetchWeatherCron(list) ==
  /\ cronPc = "idle"
  /\ dbInstance' = IF list = <<>> THEN closeDatabase(initializeDatabase(dbInstance))
                   ELSE initializeDatabase(dbInstance)
  /\ features' = list
  /\ LET r == replenish(list, 0, <<>>, [k \in DOMAIN list |-> <<>>])
     IN  /\ started' = r[1]
         /\ running' = r[2]
         /\ attempts' = r[3]
  /\ cronPc' = IF list = <<>> THEN "done" ELSE "each"
  /\ UNCHANGED <<now, hostOffset, table, call, doc, previous, sqliteVars,
                 genVars, riverVars, geoVars>>

\* fs.readFile fails: process.exit()
geojsonMissing ==
  /\ cronPc = "idle"
  /\ dbInstance' = initializeDatabase(dbInstance)
  /\ cronPc' = "exited"
  /\ UNCHANGED <<now, hostOffset, table, call, doc, previous, sqliteVars,
                 genVars, features, started, running, attempts, riverVars,
                 geoVars>>

\* The rest of one fetchWeatherForLocation call and the iteratee's callback:
\* the outcome is recorded, a reading is appended, eachLimit starts the next
\* feature or, after the last callback, resolves and the database is closed
fetchWeatherForLocation(k, outcome) ==
  /\ cronPc \in {"each", "rejected"}
  /\ k \in DOMAIN running
  /\ IF running[k] = "returning" THEN outcome = "missingAuroraId"
     ELSE outcome \in QueryOutcomes
  /\ LET row == [auroraId |-> features[k].auroraId,
                 fetchTime |-> toISOString(now),
                 generationTime |-> Reading.generationTime,
                 value |-> Reading.value]
         result == IF outcome = "stored" /\ insertOrIgnore(table, row) = table
                   THEN "ignored" ELSE outcome
         rest == [j \in DOMAIN running \ {k} |-> running[j]]
         att == [attempts EXCEPT ![k][Len(attempts[k])] = result]
         r == replenish(features, started, rest, att)
     IN  /\ table' = IF outcome = "stored" THEN insertOrIgnore(table, row)
                     ELSE table
         /\ IF cronPc = "rejected" \/ iterateeRejects(outcome)
            THEN /\ cronPc' = "rejected"
                 /\ running' = rest
                 /\ attempts' = att
                 /\ UNCHANGED <<started, dbInstance>>
            ELSE /\ started' = r[1]
                 /\ running' = r[2]
                 /\ attempts' = r[3]
                 /\ cronPc' = IF DOMAIN r[2] = {} THEN "done" ELSE "each"
                 /\ dbInstance' = IF DOMAIN r[2] = {} THEN closeDatabase(dbInstance)
                                  ELSE dbInstance
  /\ UNCHANGED <<now, hostOffset, call, doc, previous, sqliteVars, genVars,
                 features, riverVars, geoVars>>

NextCron ==
  \/ cronPc = "idle" /\ \E list \in FeatureLists : fetchWeatherCron(list)
  \/ geojsonMissing
  \/ \E k \in 1..MaxFeatures :
       \E outcome \in QueryOutcomes \cup {"missingAuroraId"} :
         fetchWeatherForLocation(k, outcome)

SpecCron == InitCron /\ [][NextCron]_vars

----------------------------------------------------------------------------
(* parseRiverHeights: the records of the first table.rhb of a page          *)
(*                                                                          *)
(* A page is the sequence of its tables in document order; a table has a    *)
(* class and rows, each row in a section (thead or tbody) with its cells in *)
(* order; a cell has a tag, may have a rowspan attribute, and has a text.   *)
(* A text is a sequence of characters; "nbsp" is U+00A0 and "&nbsp;" the    *)
(* six characters of the entity's name, which the code treats as one unit.  *)

WhiteSpace == {" ", "nbsp"}

Chars == {"a", "b", "&nbsp;"} \cup WhiteSpace

\* String#trim: white space, U+00A0 included, off both ends
RECURSIVE trim(_)
trim(text) ==
  IF text = <<>> THEN text
  ELSE IF Head(text) \in WhiteSpace THEN trim(Tail(text))
  ELSE IF text[Len(text)] \in WhiteSpace
       THEN trim(SubSeq(text, 1, Len(text) - 1))
  ELSE text

IsEntity(c) == c = "&nbsp;"
NotEntity(c) == ~IsEntity(c)

\* .replace(/&nbsp;/g, "")
removeEntity(text) == SelectSeq(text, NotEntity)

\* record[key].replace(/\u00a0/g, " ")
nbspToSpace(text) == [i \in DOMAIN text |-> IF text[i] = "nbsp" THEN " " ELSE text[i]]

\* cells[i].textContent.trim(), then the loop over the record's keys
cleanText(text) == trim(nbspToSpace(trim(text)))

\* the same for crossingM and floodClassification, which drop "&nbsp;" too
cleanTextNoEntity(text) == trim(nbspToSpace(trim(removeEntity(trim(text)))))

IsRhb(t) == t.rhb
IsTd(cell) == cell.tag = "td"
InTbody(row) == row.section = "tbody"

\* document.querySelector("table.rhb"): the first such table, as a
\* one-element sequence, or none
querySelectorRhb(page) ==
  LET found == SelectSeq(page, IsRhb)
  IN  IF found = <<>> THEN <<>> ELSE <<Head(found)>>

\* table.querySelectorAll("tbody tr")
bodyRows(tbl) == SelectSeq(tbl.rows, InTbody)

\* row.querySelectorAll("td")
dataCells(row) == SelectSeq(row.cells, IsTd)

\* only the data cells are looked at
hasRowspanInTd(row) ==
  \E i \in DOMAIN row.cells : row.cells[i].tag = "td" /\ row.cells[i].rowspan

\* Array.from(row.querySelectorAll("td, th")).some((c) => c.hasAttribute("rowspan"))
hasRowspan(row) == \E i \in DOMAIN row.cells : row.cells[i].rowspan

recordOf(cells) ==
  [ stationName         |-> cleanText(cells[1].text),
    stationType         |-> cleanText(cells[2].text),
    timeDay             |-> cleanText(cells[3].text),
    heightM             |-> cleanText(cells[4].text),
    gaugeDatum          |-> cleanText(cells[5].text),
    tendency            |-> cleanText(cells[6].text),
    crossingM           |-> cleanTextNoEntity(cells[7].text),
    floodClassification |-> cleanTextNoEntity(cells[8].text),
    recentData          |-> cleanText(cells[9].text) ]

\* rows.forEach((row) => { ... data.push(record) }) over the first n rows
RECURSIVE forEachRow(_, _)
forEachRow(rows, n) ==
  IF n = 0 THEN <<>>
  ELSE LET prev  == forEachRow(rows, n - 1)
           cells == dataCells(rows[n])
       IN  IF hasRowspan(rows[n]) THEN prev
           ELSE IF Len(cells) = 9 THEN Append(prev, recordOf(cells))
           ELSE prev

parseRiverHeights(page) ==
  LET tbl == querySelectorRhb(page)
  IN  IF tbl = <<>> THEN <<>>
      ELSE forEachRow(bodyRows(tbl[1]), Len(bodyRows(tbl[1])))

\* rows a table of a page can hold
MaxTableRows == 2

Td(text) == [tag |-> "td", rowspan |-> FALSE, text |-> text]
TdRowspan(text) == [tag |-> "td", rowspan |-> TRUE, text |-> text]
Th(text) == [tag |-> "th", rowspan |-> FALSE, text |-> text]
ThRowspan(text) == [tag |-> "th", rowspan |-> TRUE, text |-> text]

\* the cells of a station's row: name, type, time, height, datum, tendency,
\* crossing, classification, links
StationCells(name) ==
  << Td(<<" ", name, "nbsp">>), Td(<<"a">>), Td(<<"a", " ", "b">>),
     Td(<<"a">>), Td(<<"b">>), Td(<<"a">>), Td(<<"nbsp">>),
     Td(<<"&nbsp;", "b">>), Td(<<"a", "nbsp", "b">>) >>

\* rows as the pages have them and as they could have them: a station, a
\* basin subheading, a station row with a spanning cell, with a spanning
\* header cell, with a plain header cell, with a cell short or a cell more
RowCells ==
  { StationCells("a"), StationCells("b"),
    <<ThRowspan(<<"b">>)>>,
    <<TdRowspan(<<"a">>)>> \o Tail(StationCells("a")),
    <<ThRowspan(<<"b">>)>> \o StationCells("a"),
    <<Th(<<"b">>)>> \o StationCells("b"),
    Tail(StationCells("a")),
    StationCells("b") \o <<Td(<<"a">>)>> }

PageRows == [section : {"tbody"}, cells : RowCells]
              \cup [section : {"thead"}, cells : {StationCells("a")}]

Tables == [rhb : BOOLEAN,
           rows : UNION {[1..n -> PageRows] : n \in 0..MaxTableRows}]

\* a table of one station, with and without the class
SmallTables == [rhb : BOOLEAN,
                rows : {<<[section |-> "tbody", cells |-> StationCells("b")]>>}]

\* pages of no table, of one table, and of a small table before or after
\* another table
Pages ==
  {<<>>} \cup {<<t>> : t \in Tables}
         \cup {<<q, t>> : q \in SmallTables, t \in Tables}
         \cup {<<t, q>> : q \in SmallTables, t \in Tables}

NotReturned == [returned |-> FALSE]

InitRiver ==
  /\ now \in EngineClocks
  /\ hostOffset = 0
  /\ table = {}
  /\ call = NoCall
  /\ doc = NoDoc
  /\ dbInstance = NULL
  /\ previous = NoCall
  /\ CronIdle
  /\ GeoIdle
  /\ SqliteIdle
  /\ GenIdle
  /\ html \in Pages
  /\ riverData = NotReturned

ParseRiverHeights ==
  /\ ~riverData.returned
  /\ riverData' = [returned |-> TRUE, data |-> parseRiverHeights(html)]
  /\ UNCHANGED <<now, hostOffset, table, call, doc, dbInstance, previous,
                 sqliteVars, genVars,
                 cronVars, geoVars, html>>

NextRiver == ParseRiverHeights

SpecRiver == InitRiver /\ [][NextRiver]_vars

----------------------------------------------------------------------------
(* geonames-to-geojson: the greedy spatial filter                           *)
(*                                                                          *)
(* The places of the model lie on one meridian; `km` is a place's position  *)
(* along it, so that the great-circle distance of two places is the         *)
(* difference of their positions.                                           *)

\* const DISTANCE_THRESHOLD_KM = 50;
DISTANCE_THRESHOLD_KM == 50

\* lines the GeoNames dump can hold
MaxPlaces == 3


\* location["feature code"].includes("PPL")
includesPPL(code) == code \in {"PPL", "PPLA", "PPLC", "PPLX"}

\* a parsed line less its geonameid: population (0 when the column is
\* empty), feature code, position.  "PPLA" is a populated place, the seat of
\* an administrative division; "ADMD" is an administrative division
Places ==
  [population : {0, 100, 500}, featureCode : {"PPLA"}, km : {0, 49, 50, 99}]
    \cup [population : {500}, featureCode : {"ADMD"}, km : {0}]

Dumps == UNION {[1..n -> Places] : n \in 0..MaxPlaces}

\* lines.map(...): the line number stands for the geonameid
parseLines(lines) ==
  [i \in DOMAIN lines |->
     [geonameid |-> i, population |-> lines[i].population,
      featureCode |-> lines[i].featureCode, km |-> lines[i].km]]

IsCandidate(location) ==
  location.population > 0 /\ includesPPL(location.featureCode)

\* (a, b) => a.population - b.population
comparePopulationAscending(a, b) == a.population - b.population

\* (a, b) => b.population - a.population
comparePopulation(a, b) == b.population - a.population

\* Array#toSorted is stable: insert x after the last member that does not
\* compare greater than it
RECURSIVE insertSorted(_, _)
insertSorted(sorted, x) ==
  IF sorted = <<>> THEN <<x>>
  ELSE IF comparePopulation(sorted[Len(sorted)], x) <= 0
       THEN Append(sorted, x)
       ELSE Append(insertSorted(SubSeq(sorted, 1, Len(sorted) - 1), x),
                   sorted[Len(sorted)])

RECURSIVE toSorted(_, _)
toSorted(seq, n) ==
  IF n = 0 THEN <<>> ELSE insertSorted(toSorted(seq, n - 1), seq[n])

\* turf.distance(candidatePoint, existingPoint, { units: "kilometers" })
distance(a, b) == IF a.km >= b.km THEN a.km - b.km ELSE b.km - a.km

\* a filter that accepts every candidate
isTooCloseNever(candidate, accepted) == FALSE

\* for (const existing of acceptedLocations) { if (distance < ...) ... }
isTooClose(candidate, accepted) ==
  \E i \in DOMAIN accepted :
    distance(candidate, accepted[i]) < DISTANCE_THRESHOLD_KM

InitGeo ==
  /\ now \in EngineClocks
  /\ hostOffset = 0
  /\ table = {}
  /\ call = NoCall
  /\ doc = NoDoc
  /\ dbInstance = NULL
  /\ OthersIdle

\* steps 2 and 3 of the script: the dump is read, parsed, filtered, sorted
LoadLocations(lines) ==
  /\ candidates = <<>> /\ cursor = 0
  /\ LET parsed == SelectSeq(parseLines(lines), IsCandidate)
     IN  candidates' = toSorted(parsed, Len(parsed))
  /\ UNCHANGED <<now, hostOffset, table, call, doc, dbInstance, previous,
                 sqliteVars, genVars,
                 cronVars, riverVars, cursor, acceptedLocations>>

\* one turn of the loop `for (const candidate of locations)`
FilterCandidate ==
  /\ cursor < Len(candidates)
  /\ cursor' = cursor + 1
  /\ acceptedLocations' =
       IF isTooClose(candidates[cursor + 1], acceptedLocations)
       THEN acceptedLocations
       ELSE Append(acceptedLocations, candidates[cursor + 1])
  /\ UNCHANGED <<now, hostOffset, table, call, doc, dbInstance, previous,
                 sqliteVars, genVars,
                 cronVars, riverVars, candidates>>

NextGeo ==
  \/ candidates = <<>> /\ \E lines \in Dumps : LoadLocations(lines)
  \/ FilterCandidate

SpecGeo == InitGeo /\ [][NextGeo]_vars

----------------------------------------------------------------------------
(* Vocabulary of the claims *)

IsDayCall == call.fn \in {"getDayBoundaries", "getDayBoundariesOld"}
IsDense   == call.fn \in {"dense", "oldDense"}
IsSparse  == call.fn = "sparse"
IsEngine  == IsDense \/ IsSparse

\* the Brisbane civil date of an instant, as a day number
CivilDay(t) == (t + TzMs) \div MsPerDay

\* t is 00:00:00.000 on the Brisbane wall clock
IsLocalMidnight(t) == (t + TzMs) % MsPerDay = 0

BucketMs == BUCKET_SIZE_MIN * MsPerMinute

\* the instant of the k-th row read, the rows of a location, of an interval
RowMs(k) == call.rows[k].generationTime.ms
RowsOf(loc) == {k \in DOMAIN call.rows : call.rows[k].auroraId = loc}
RowsIn(loc, from, width) ==
  {k \in RowsOf(loc) : from <= RowMs(k) /\ RowMs(k) < from + width}

\* the instant a timestamp of a dense document names
StampMs(i) == doc.timestamps[i].ms

----------------------------------------------------------------------------
(* C3 *)

\* C3 as claimed: every range getDayBoundaries returns has start < end and
\* end - start = exactly 24 hours, end being the next local midnight.
C3_DayRangeIs24Hours ==
  IsDayCall =>
    /\ call.start.ms < call.end.ms
    /\ call.end.ms - call.start.ms = MsPerDay
    /\ IsLocalMidnight(call.end.ms)

\* C3 as amended: every range getDayBoundaries returns has start < end and
\* end - start = 24 hours less one millisecond (86,399,999 ms): end is
\* 23:59:59.999 of the same local day, not the next local midnight.
C3_DayRangeIsOneMsShort ==
  IsDayCall =>
    /\ call.start.ms < call.end.ms
    /\ call.end.ms - call.start.ms = MsPerDay - 1
    /\ ~IsLocalMidnight(call.end.ms)

C3_Witness ==
  /\ call.fn = "getDayBoundaries"
  /\ call.dayStart = -MaxDayOffset
  /\ call.clock = Utc(10, 14, 0, 0, 0)

----------------------------------------------------------------------------
(* C4 *)

\* start is local midnight of the civil date d days after the Brisbane civil
\* date of the clock
StartIsMidnightOfTargetDay ==
  /\ IsLocalMidnight(call.start.ms)
  /\ CivilDay(call.start.ms) = CivilDay(call.clock) + call.dayStart

IsScenarioCall ==
  IsDayCall /\ call.clock = Utc(10, 13, 30, 0, 0) /\ call.dayStart = -1

\* C4 as claimed: start is 00:00 local of the civil date d days after the
\* Brisbane date of now, end is the following local midnight; at
\* now = 2025-06-10T23:30:00+10:00 and d = -1 the range is
\* 2025-06-09T14:00:00Z .. 2025-06-10T14:00:00Z.
C4_DayResolution ==
  /\ IsDayCall =>
       /\ StartIsMidnightOfTargetDay
       /\ call.end.ms = call.start.ms + MsPerDay
  /\ IsScenarioCall =>
       /\ call.start.ms = Utc(9, 14, 0, 0, 0)
       /\ call.end.ms = Utc(10, 14, 0, 0, 0)

\* C4 as amended: start is 00:00 local of the civil date d days after the
\* Brisbane date of now, end is the last millisecond (23:59:59.999 local) of
\* that same civil date; at now = 2025-06-10T23:30:00+10:00 and d = -1 the
\* range is 2025-06-08T14:00:00.000Z .. 2025-06-09T13:59:59.999Z.
C4_DayResolutionToLastMs ==
  /\ IsDayCall =>
       /\ StartIsMidnightOfTargetDay
       /\ CivilDay(call.end.ms) = CivilDay(call.start.ms)
       /\ IsLocalMidnight(call.end.ms + 1)
       /\ call.start.off = 0 /\ call.end.off = 0
  /\ IsScenarioCall =>
       /\ call.start.ms = Utc(8, 14, 0, 0, 0)
       /\ call.end.ms = Utc(9, 13, 59, 59, 999)

C4_Witness == IsScenarioCall /\ call.fn = "getDayBoundaries"

----------------------------------------------------------------------------
(* C1 *)

\* the values a location's series carries: the array of a dense document,
\* the second members of the pairs of a sparse one
SeriesValues(loc) ==
  IF IsSparse THEN {doc.series[loc][i][2] : i \in DOMAIN doc.series[loc]}
  ELSE {doc.series[loc][i] : i \in DOMAIN doc.series[loc]}

\* C1 as claimed: in the dense and in the sparse form, every location that is
\* a key of series has at least one non-null value, so a location whose rows
\* all carry null is absent.
C1_OmissionInvariant ==
  IsEngine => \A loc \in DOMAIN doc.series : SeriesValues(loc) \ {NULL} # {}

\* the same, of the two dense versions alone
C1_OmissionInDense ==
  IsDense => \A loc \in DOMAIN doc.series : SeriesValues(loc) \ {NULL} # {}

----------------------------------------------------------------------------
(* C2 *)

\* whole buckets between the day's start and the k-th row read
BucketIndex(k) == (RowMs(k) - call.start.ms) \div BucketMs

Stamps == {StampMs(i) : i \in DOMAIN doc.timestamps}

SparseOffsets ==
  UNION {{doc.series[loc][i][1] : i \in DOMAIN doc.series[loc]} :
           loc \in DOMAIN doc.series}

\* the k-th row read is the n-th row of its location
NthOfItsLocation(k) ==
  Cardinality({j \in RowsOf(call.rows[k].auroraId) : j <= k})

----------------------------------------------------------------------------
(* C5 *)

InDayWindow(r) ==
  /\ call.start.ms <= r.generationTime.ms
  /\ r.generationTime.ms < call.start.ms + MsPerDay

\* C5 as claimed: the rows processed for a day are exactly the stored rows
\* with dayStart <= generationTime < dayStart + 24h.
C5_HalfOpenDayWindow ==
  IsEngine => Range(call.rows) = {r \in table : InDayWindow(r)}

\* the same, of the two versions that filter by unixepoch
C5_HalfOpenByUnixepoch ==
  call.fn \in {"dense", "sparse"} =>
    Range(call.rows) = {r \in table : InDayWindow(r)}

----------------------------------------------------------------------------
(* C6 *)

Max(S) == CHOOSE m \in S : \A k \in S : k <= m

\* the row read last among the rows K is also the latest of them
LastIsLatest(K) == \A k \in K : RowMs(k) <= RowMs(Max(K))

\* the pairs of a sparse series whose offset lies in the bucket starting at
\* minute m
PairsInBucket(loc, m) ==
  {i \in DOMAIN doc.series[loc] :
     m <= doc.series[loc][i][1] /\ doc.series[loc][i][1] < m + BUCKET_SIZE_MIN}

----------------------------------------------------------------------------
(* C7 *)

\* C7: in every dense document each location's array is as long as
\* timestamps, and entry i is a value recorded for the location in the bucket
\* timestamps[i], or null when the location has no row in that bucket.
C7_DenseAlignment ==
  IsDense => \A loc \in DOMAIN doc.series :
    /\ Len(doc.series[loc]) = Len(doc.timestamps)
    /\ \A i \in DOMAIN doc.timestamps :
         LET K == RowsIn(loc, StampMs(i), BucketMs)
         IN  IF K = {} THEN doc.series[loc][i] = NULL
             ELSE \E k \in K : doc.series[loc][i] = call.rows[k].value

\* a dense document of two locations and two buckets, one location with a
\* value in a bucket where the other has no row
C7_Witness ==
  /\ call.fn = "dense"
  /\ Len(doc.timestamps) = 2
  /\ Cardinality(DOMAIN doc.series) = 2
  /\ \E i \in DOMAIN doc.timestamps : \E a, b \in DOMAIN doc.series :
       /\ RowsIn(a, StampMs(i), BucketMs) = {}
       /\ doc.series[b][i] # NULL

----------------------------------------------------------------------------
(* C8 *)

AxisIsObservedBuckets ==
  /\ \A i \in DOMAIN doc.timestamps :
       \E k \in DOMAIN call.rows :
         StampMs(i) <= RowMs(k) /\ RowMs(k) < StampMs(i) + BucketMs
  /\ \A k \in DOMAIN call.rows :
       \E i \in DOMAIN doc.timestamps :
         StampMs(i) <= RowMs(k) /\ RowMs(k) < StampMs(i) + BucketMs

AxisIsAscending ==
  \A i, j \in DOMAIN doc.timestamps : i < j => StampMs(i) < StampMs(j)

\* C8 as claimed: timestamps of a dense document is exactly the set of
\* buckets some row of the day fell in, without duplicates, in strictly
\* ascending chronological order.
C8_DenseAxis ==
  IsDense => AxisIsObservedBuckets /\ AxisIsAscending

\* the same, of the current dense version alone
C8_DenseAxisCurrent ==
  call.fn = "dense" => AxisIsObservedBuckets /\ AxisIsAscending

----------------------------------------------------------------------------
(* C9 *)

OffsetsInDay ==
  \A x \in SparseOffsets : 0 <= x /\ x < 24 * 60

\* C9 as claimed: each location's pairs are in strictly ascending offset
\* order, at most one per bucket, every offset in 0 .. 1439.
C9_SparseOrdering ==
  IsSparse =>
    /\ \A loc \in DOMAIN doc.series : \A i, j \in DOMAIN doc.series[loc] :
         i < j => doc.series[loc][i][1] < doc.series[loc][j][1]
    /\ \A loc \in DOMAIN doc.series : \A b \in 0..47 :
         Cardinality(PairsInBucket(loc, b * BUCKET_SIZE_MIN)) <= 1
    /\ OffsetsInDay

\* C9 as amended: each location's pairs are in ascending offset order, not
\* strictly: there is one pair per row, so rows of the same minute give pairs
\* of equal offset and a bucket can hold several pairs; every offset is in
\* 0 .. 1439.
C9_SparseAscending ==
  IsSparse =>
    /\ \A loc \in DOMAIN doc.series : \A i, j \in DOMAIN doc.series[loc] :
         i < j => doc.series[loc][i][1] <= doc.series[loc][j][1]
    /\ OffsetsInDay

\* a sparse document in which a location has two pairs of one minute and a
\* later pair
C9_Witness ==
  /\ IsSparse
  /\ \E loc \in DOMAIN doc.series : \E i, j, k \in DOMAIN doc.series[loc] :
       /\ i < j /\ j < k
       /\ doc.series[loc][i][1] = doc.series[loc][j][1]
       /\ doc.series[loc][j][1] < doc.series[loc][k][1]

----------------------------------------------------------------------------
(* C10 *)

\* C10 as claimed: a sparse document never contains a pair whose value is
\* null.
C10_SparseHasNoNullPair ==
  IsSparse => \A loc \in DOMAIN doc.series : NULL \notin SeriesValues(loc)

----------------------------------------------------------------------------
(* C11 *)

IsColumnCall == call.fn \in {"dense", "oldDense", "sparse"}

FailedFast ==
  /\ call.threw
  /\ dbInstance = NULL
  /\ call.read = {}
  /\ doc = NoDoc

\* C11 as claimed: a call of getTimeSeriesForColumn with a column that is not
\* a known name ends in an error before the database is opened or any row is
\* read, and returns no document.
C11_FailFast ==
  (IsColumnCall /\ call.column \notin SCHEMA_MAPPING) => FailedFast

\* the same, of the current dense version alone
C11_FailFastCurrent ==
  (call.fn = "dense" /\ call.column \notin SCHEMA_MAPPING) => FailedFast

----------------------------------------------------------------------------
(* C12 *)

\* the call read no row of the day
ReadNoRow == ~call.threw /\ call.rows = <<>>

\* the document carries the instant it was generated at
HasGenerationStamp ==
  IF IsSparse
  THEN /\ "updatedDate" \in DOMAIN doc
       /\ doc.updatedDate = formatInTimeZone(call.clock)
  ELSE /\ "createdDate" \in DOMAIN doc
       /\ doc.createdDate.ms = call.clock

\* a dense document has an empty timestamps array; a sparse document has no
\* axis of its own
HasEmptyAxis ==
  IsDense => "timestamps" \in DOMAIN doc /\ doc.timestamps = <<>>

EmptyDocument ==
  /\ HasGenerationStamp
  /\ HasEmptyAxis
  /\ "series" \in DOMAIN doc /\ DOMAIN doc.series = {}

\* C12 as claimed: when no stored row lies in the day range, the call does
\* not fail and returns a document with the generation timestamp, an empty
\* bucket axis and an empty location mapping.
C12_EmptyResultSet ==
  (IsEngine /\ ReadNoRow) => EmptyDocument

\* the same, of the current dense version and the sparse version
C12_EmptyResultSetByUnixepoch ==
  (call.fn \in {"dense", "sparse"} /\ ReadNoRow) => EmptyDocument

----------------------------------------------------------------------------
(* C13 *)

\* two completed runs of the same version over the same day range
SameRun ==
  /\ IsEngine /\ previous.fn = call.fn
  /\ previous.start = call.start /\ previous.end = call.end

SameRowSet == Range(previous.rows) = Range(call.rows)

\* a document less its generation stamp
WithoutStamp(d) ==
  [k \in DOMAIN d \ {"createdDate", "updatedDate"} |-> d[k]]

----------------------------------------------------------------------------
(* C14 *)

\* the two runs are the current dense version and the sparse version over
\* the same day range
DenseAndSparse ==
  /\ {previous.fn, call.fn} = {"dense", "sparse"}
  /\ previous.start = call.start /\ previous.end = call.end

DenseDoc  == IF call.fn = "dense" THEN doc ELSE previous.doc
SparseDoc == IF call.fn = "sparse" THEN doc ELSE previous.doc

\* minutes from the day's start to the i-th bucket of the dense document
DenseOffset(i) ==
  (DenseDoc.timestamps[i].ms - call.start.ms) \div MsPerMinute

DenseTriples ==
  UNION {{<<loc, DenseOffset(i), DenseDoc.series[loc][i]>> :
            i \in {j \in DOMAIN DenseDoc.timestamps :
                     DenseDoc.series[loc][j] # NULL}} :
           loc \in DOMAIN DenseDoc.series}

SparseTriples ==
  UNION {{<<loc, SparseDoc.series[loc][i][1], SparseDoc.series[loc][i][2]>> :
            i \in {j \in DOMAIN SparseDoc.series[loc] :
                     SparseDoc.series[loc][j][2] # NULL}} :
           loc \in DOMAIN SparseDoc.series}

\* C14 as claimed: the (location, bucket offset, value) triples with non-null
\* value read from the dense document equal those read from the sparse
\* document built from the same row set.
C14_RoundTrip ==
  (DenseAndSparse /\ SameRowSet) => DenseTriples = SparseTriples

\* the pairs of a location in the sparse document whose minute lies in the
\* i-th bucket of the dense document
PairsOfBucket(loc, i) ==
  IF loc \in DOMAIN SparseDoc.series
  THEN {j \in DOMAIN SparseDoc.series[loc] :
          LET t == call.start.ms + SparseDoc.series[loc][j][1] * MsPerMinute
          IN  /\ DenseDoc.timestamps[i].ms <= t
              /\ t < DenseDoc.timestamps[i].ms + BucketMs}
  ELSE {}

\* what bucketing the sparse pairs gives for a location and a bucket: the
\* value of the last pair of the bucket, null when there is none
LastPairValue(loc, i) ==
  IF PairsOfBucket(loc, i) = {} THEN NULL
  ELSE SparseDoc.series[loc][Max(PairsOfBucket(loc, i))][2]

\* C14 as amended: the two documents do not carry the same triples: the
\* sparse one has a pair per row at the row's whole minute since the day's
\* start, the dense one a value per half hour.  Built from the same rows in
\* the same order, the dense document is the sparse one bucketed: every pair
\* falls in a bucket of the dense axis, a location's dense entry for a bucket
\* is the value of the last of its pairs in that bucket (null when it has
\* none), and a location is left out of the dense document exactly when all
\* these values are null.
C14_DenseIsBucketedSparse ==
  (DenseAndSparse /\ previous.rows = call.rows) =>
    /\ \A loc \in DOMAIN SparseDoc.series :
         \A j \in DOMAIN SparseDoc.series[loc] :
           \E i \in DOMAIN DenseDoc.timestamps : j \in PairsOfBucket(loc, i)
    /\ \A loc \in DOMAIN DenseDoc.series : \A i \in DOMAIN DenseDoc.timestamps :
         DenseDoc.series[loc][i] = LastPairValue(loc, i)
    /\ DOMAIN DenseDoc.series =
         {loc \in DOMAIN SparseDoc.series :
            \E i \in DOMAIN DenseDoc.timestamps : LastPairValue(loc, i) # NULL}

\* a dense and a sparse run over two rows of one location in one bucket, at
\* different minutes and with different values
C14_Witness ==
  /\ DenseAndSparse /\ previous.rows = call.rows
  /\ Len(DenseDoc.timestamps) = 1
  /\ \E loc \in DOMAIN SparseDoc.series :
       /\ Len(SparseDoc.series[loc]) = 2
       /\ SparseDoc.series[loc][1][1] # SparseDoc.series[loc][2][1]
       /\ NULL \notin {SparseDoc.series[loc][1][2], SparseDoc.series[loc][2][2]}
       /\ SparseDoc.series[loc][1][2] # SparseDoc.series[loc][2][2]

----------------------------------------------------------------------------
(* C15 *)

\* the document the version that was called builds when it is handed the
\* rows in the order `rows`
DocumentOf(rows) ==
  CASE call.fn = "dense" -> denseDocument(call.clock, hostOffset, rows)
    [] call.fn = "oldDense" ->
         oldDenseDocument(call.clock, hostOffset, oldLocationsList(table), rows)
    [] call.fn = "sparse" -> sparseDocument(call.clock, call.start, rows)

\* every order the rows read can be processed in
RowOrders == Perms(Range(call.rows))

\* the entries of a document: (location, bucket, value) of a dense one,
\* (location, minute, value) of a sparse one
Cells(d) ==
  IF IsSparse
  THEN UNION {{<<loc, d.series[loc][i][1], d.series[loc][i][2]>> :
                 i \in DOMAIN d.series[loc]} : loc \in DOMAIN d.series}
  ELSE UNION {{<<loc, d.timestamps[i].ms, d.series[loc][i]>> :
                 i \in DOMAIN d.timestamps} : loc \in DOMAIN d.series}

\* no location has two rows in one bucket
NoCollision ==
  \A j, k \in DOMAIN call.rows :
    (j # k /\ call.rows[j].auroraId = call.rows[k].auroraId) =>
      \A i \in DOMAIN doc.timestamps :
        ~(k \in RowsIn(call.rows[k].auroraId, StampMs(i), BucketMs)
          /\ j \in RowsIn(call.rows[j].auroraId, StampMs(i), BucketMs))

\* C15 as claimed: processing the rows in any permutation yields the same
\* bucket axis and the same per-location series.
C15_OrderIndependence ==
  IsEngine => \A rows \in RowOrders :
    /\ IsDense => DocumentOf(rows).timestamps = doc.timestamps
    /\ DocumentOf(rows).series = doc.series

\* C15 as amended: whatever the order the rows are processed in, the set of
\* buckets of a dense document and the set of pairs of a sparse document are
\* the same, and so are the locations and the value of every location and
\* bucket of a dense document unless some location has two rows in one
\* bucket (then the row processed last gives the value).  The axis of the
\* current dense version is the same array; the axis of the old dense version
\* (buckets in order of first appearance) and the order of the pairs of the
\* sparse version follow the order of the rows.
C15_OrderIndependentCells ==
  IsEngine => \A rows \in RowOrders :
    /\ IsDense => Range(DocumentOf(rows).timestamps) = Range(doc.timestamps)
    /\ call.fn = "dense" => DocumentOf(rows).timestamps = doc.timestamps
    /\ (IsDense /\ NoCollision) =>
         /\ DOMAIN DocumentOf(rows).series = DOMAIN doc.series
         /\ Cells(DocumentOf(rows)) = Cells(doc)
    /\ IsSparse =>
         /\ DOMAIN DocumentOf(rows).series = DOMAIN doc.series
         /\ Cells(DocumentOf(rows)) = Cells(doc)
         /\ \A loc \in DOMAIN doc.series :
              Len(DocumentOf(rows).series[loc]) = Len(doc.series[loc])

\* a current dense call that read three rows of two buckets and two
\* locations, no location with two rows in one bucket
C15_Witness ==
  /\ call.fn = "dense"
  /\ Len(call.rows) = 3
  /\ Len(doc.timestamps) = 2
  /\ Cardinality(DOMAIN doc.series) = 2
  /\ NoCollision

----------------------------------------------------------------------------
(* C16 *)

\* C16: every non-null value of a document is the value, unchanged, of a row
\* read for that location whose timestamp lies in that bucket (dense) or in
\* that minute, hence in that bucket (sparse).
C16_ValueForwarding ==
  /\ IsDense => \A loc \in DOMAIN doc.series : \A i \in DOMAIN doc.series[loc] :
       doc.series[loc][i] # NULL =>
         \E k \in RowsIn(loc, StampMs(i), BucketMs) :
           call.rows[k].value = doc.series[loc][i]
  /\ IsSparse => \A loc \in DOMAIN doc.series : \A j \in DOMAIN doc.series[loc] :
       doc.series[loc][j][2] # NULL =>
         \E k \in RowsIn(loc, call.start.ms + doc.series[loc][j][1] * MsPerMinute,
                         MsPerMinute) :
           /\ call.rows[k].value = doc.series[loc][j][2]
           /\ BucketIndex(k) = doc.series[loc][j][1] \div BUCKET_SIZE_MIN

\* a dense document in which a location has a value in one bucket, taken from
\* one of two rows with different values, and null in another bucket
C16_Witness ==
  /\ IsDense
  /\ \E loc \in DOMAIN doc.series : \E i, n \in DOMAIN doc.timestamps :
       /\ doc.series[loc][n] = NULL
       /\ doc.series[loc][i] # NULL
       /\ \E j, k \in RowsIn(loc, StampMs(i), BucketMs) :
            call.rows[j].value # call.rows[k].value

----------------------------------------------------------------------------
(* C17 *)

\* the per-location fetches in flight: started and not yet called back
InFlight == DOMAIN running

\* C17: during fetchWeatherCron at most 3 per-location fetches are in flight
\* at any moment.
C17_BoundedConcurrency ==
  /\ Cardinality(InFlight) <= limit
  /\ InFlight \subseteq 1..started

\* a list longer than the limit with the limit reached and a feature waiting
C17_Witness ==
  /\ cronPc = "each"
  /\ Len(features) > limit
  /\ Cardinality(InFlight) = limit
  /\ started < Len(features)
  /\ \A k \in InFlight : running[k] = "query"

----------------------------------------------------------------------------
(* C18 *)

\* the attempt on the k-th feature has been made and has ended
Completed(k) == Len(attempts[k]) = 1 /\ attempts[k][1] # "pending"

\* the row the attempt on the k-th feature appends
RowOf(k) == [auroraId |-> features[k].auroraId,
             fetchTime |-> toISOString(now),
             generationTime |-> Reading.generationTime,
             value |-> Reading.value]

Failures == {"rejected", "noData", "missingAuroraId", "insertError"}

\* C18: a failed fetch or store for one location does not abort the batch:
\* no location is attempted twice, at the end every location has been
\* attempted exactly once, a row stored stays stored, and the database is
\* closed only after every attempt has completed.
C18_IsolateAndContinue ==
  /\ cronPc # "rejected"
  /\ \A k \in DOMAIN attempts : Len(attempts[k]) <= 1
  /\ cronPc = "done" =>
       /\ \A k \in DOMAIN features : Completed(k)
       /\ dbInstance = NULL
  /\ \A k \in DOMAIN attempts :
       (Len(attempts[k]) = 1 /\ attempts[k][1] = "stored") => RowOf(k) \in table
  /\ cronPc = "each" => dbInstance = "open"
  /\ (cronPc # "idle" /\ dbInstance = NULL) =>
       /\ DOMAIN running = {}
       /\ \A k \in DOMAIN features : Completed(k)

\* a finished batch in which the first location's query was rejected, another
\* attempt failed in a different way, and the last location was stored
C18_Witness ==
  /\ cronPc = "done"
  /\ Len(features) = MaxFeatures
  /\ attempts[1][1] = "rejected"
  /\ \E k \in DOMAIN features : attempts[k][1] \in Failures \ {"rejected"}
  /\ attempts[Len(features)][1] = "stored"

----------------------------------------------------------------------------
(* C19 *)

RecordFields ==
  { "stationName", "stationType", "timeDay", "heightM", "gaugeDatum",
    "tendency", "crossingM", "floodClassification", "recentData" }

\* the tables of the page that have the class rhb
RhbTables == {t \in DOMAIN html : html[t].rhb}

\* the first of them; its rows are the ones parsed
TheTable == html[CHOOSE t \in RhbTables : \A u \in RhbTables : t <= u]

CountTd(row) == Cardinality({i \in DOMAIN row.cells : row.cells[i].tag = "td"})

\* the rows that give a record: in the table body, exactly 9 data cells, no
\* cell with a rowspan attribute
Qualifying ==
  {r \in DOMAIN TheTable.rows :
     /\ TheTable.rows[r].section = "tbody"
     /\ CountTd(TheTable.rows[r]) = 9
     /\ \A i \in DOMAIN TheTable.rows[r].cells :
          ~TheTable.rows[r].cells[i].rowspan}

\* the row the k-th record comes from: the k-th qualifying row
RowOfRecord(k) ==
  CHOOSE r \in Qualifying : Cardinality({q \in Qualifying : q <= r}) = k

\* the name in the first data cell of a row, without the padding
NameOf(row) ==
  LET first == CHOOSE i \in DOMAIN row.cells :
                 /\ row.cells[i].tag = "td"
                 /\ \A j \in 1..(i - 1) : row.cells[j].tag # "td"
  IN  {row.cells[first].text[c] : c \in DOMAIN row.cells[first].text}
        \ WhiteSpace

IsString(v) == \A c \in DOMAIN v : v[c] \in Chars

\* C19: parseRiverHeights returns [] when the page has no table.rhb;
\* otherwise it returns, in document order, one record for each body row
\* with exactly 9 data cells and no cell with a rowspan, each with the nine
\* named fields as strings; other rows give no record.
C19_RiverRecords ==
  riverData.returned =>
    IF RhbTables = {} THEN riverData.data = <<>>
    ELSE /\ Len(riverData.data) = Cardinality(Qualifying)
         /\ \A k \in DOMAIN riverData.data :
              /\ DOMAIN riverData.data[k] = RecordFields
              /\ \A f \in RecordFields : IsString(riverData.data[k][f])
              /\ {riverData.data[k].stationName[c] :
                    c \in DOMAIN riverData.data[k].stationName}
                   = NameOf(TheTable.rows[RowOfRecord(k)])

\* a page whose first table lacks the class and whose table.rhb has a row
\* with a spanning header cell before a station's row
C19_Witness ==
  /\ riverData.returned
  /\ Len(html) = 2 /\ ~html[1].rhb /\ html[2].rhb
  /\ Len(html[2].rows) = 2
  /\ Qualifying = {2}
  /\ html[2].rows[1].cells[1].tag = "th" /\ html[2].rows[1].cells[1].rowspan
  /\ CountTd(html[2].rows[1]) = 9
  /\ Len(riverData.data) = 1

----------------------------------------------------------------------------
(* C20 *)

Accepted == {acceptedLocations[i] : i \in DOMAIN acceptedLocations}

\* the candidates the loop has passed and not accepted
Rejected == {candidates[k] : k \in 1..cursor} \ Accepted

----------------------------------------------------------------------------
(* sqlite.js: the module's one connection, over any sequence of calls.    *)
(* dbInstance holds the state of the DatabaseSync object it refers to;    *)
(* the object is always the one constructed last, number `connections`.   *)

\* the DatabaseSync objects one behaviour may construct
MaxConnections == 2

\* how the try block of initializeDatabase can go: it returns, the
\* constructor throws, the CREATE TABLE throws, the CREATE INDEX throws
InitOutcomes == {"ok", "connectThrows", "tableThrows", "indexThrows"}

\* the catch block would clear dbInstance after closing it
initializeDatabaseClearing(db, outcome) ==
  IF db # NULL
  THEN [dbInstance |-> db, threw |-> FALSE, constructed |-> FALSE]
  ELSE IF outcome = "ok"
       THEN [dbInstance |-> "open", threw |-> FALSE, constructed |-> TRUE]
       ELSE [dbInstance |-> NULL, threw |-> TRUE,
             constructed |-> outcome # "connectThrows"]

\* initializeDatabase(), lines 60-100, with the outcome of its try block:
\* what dbInstance is afterwards, whether the call threw, whether a
\* DatabaseSync was constructed.  A throw of the constructor leaves
\* dbInstance unassigned; a throw of exec() reaches the catch block, which
\* closes the connection and re-throws without clearing dbInstance
initializeDatabaseWith(db, outcome) ==
  IF db # NULL
  THEN [dbInstance |-> db, threw |-> FALSE, constructed |-> FALSE]
  ELSE IF outcome = "ok"
       THEN [dbInstance |-> initializeDatabase(db), threw |-> FALSE,
             constructed |-> TRUE]
       ELSE IF outcome = "connectThrows"
            THEN [dbInstance |-> NULL, threw |-> TRUE, constructed |-> FALSE]
            ELSE [dbInstance |-> "closed", threw |-> TRUE,
                  constructed |-> TRUE]

\* the values fetchWeatherForLocation stamps rows with, one per batch
FetchTimes == {toISOString(Utc(10, 13, 0, 0, 0)), toISOString(Utc(10, 13, 10, 0, 0))}

\* the objects handed to append: complete ones, ones without auroraId (or
\* with an empty one), ones without fetchTime, ones with neither
DataObjects ==
  [auroraId : {"A", ""}, fetchTime : FetchTimes,
   generationTime : {Reading.generationTime}, value : {"24.3", "24.8"}]
    \cup [fetchTime : FetchTimes, value : {"24.3"}]
    \cup [auroraId : {"A"}, value : {"24.3"}]
    \cup [value : {"24.3"}]

\* !dataObject.auroraId || !dataObject.fetchTime
lacksKey(dataObject) ==
  \/ "auroraId" \notin DOMAIN dataObject
  \/ dataObject.auroraId = ""
  \/ "fetchTime" \notin DOMAIN dataObject

\* the statement append runs on the connection it was given: nothing is
\* written when prepare() or run() throws, which it does on a closed
\* connection
insertInto(tbl, db, row, stmtThrows) ==
  IF db = "open" /\ ~stmtThrows THEN insertOrIgnore(tbl, row) ELSE tbl

\* fetchLocation's query: WHERE auroraId = ? AND fetchTime > ?
selectSince(tbl, targetAuroraId, since) ==
  {r \in tbl : r.auroraId = targetAuroraId /\ ~textLeq(r.fetchTime, since)}

InitDb ==
  /\ now \in EngineClocks
  /\ hostOffset = 0
  /\ table = {}
  /\ call = NoCall
  /\ doc = NoDoc
  /\ dbInstance = NULL
  /\ OthersIdle

\* the part every exported function starts with: the call of
\* initializeDatabase, its effect on the module and what it gave the caller
Connect(fn, outcome) ==
  LET init == initializeDatabaseWith(dbInstance, outcome)
  IN  /\ init.constructed => connections < MaxConnections
      /\ dbInstance' = init.dbInstance
      /\ connections' = IF init.constructed THEN connections + 1
                        ELSE connections
      /\ call' = [fn |-> fn, threw |-> init.threw,
                  returned |-> init.dbInstance,
                  instance |-> connections']

InitializeDatabase(outcome) ==
  /\ Connect("initializeDatabase", outcome)
  /\ UNCHANGED <<now, hostOffset, table, doc, previous, cronVars, riverVars,
                 geoVars, genVars>>

\* append(dataObject), lines 106-156: the connection is obtained outside the
\* try block; the insert is not reached without the two keys
AppendObject(dataObject, outcome, stmtThrows) ==
  LET init == initializeDatabaseWith(dbInstance, outcome)
  IN  /\ Connect("append", outcome)
      /\ table' = IF init.threw \/ lacksKey(dataObject) THEN table
                  ELSE insertInto(table, init.dbInstance, dataObject,
                                  stmtThrows)
      /\ doc' = [dataObject |-> dataObject]
      /\ UNCHANGED <<now, hostOffset, previous, cronVars, riverVars, geoVars,
                     genVars>>

\* fetchLocation(targetAuroraId), lines 164-194, since = seven days ago: the
\* rows found, or [] when the statement throws
FetchLocation(targetAuroraId, outcome) ==
  LET init == initializeDatabaseWith(dbInstance, outcome)
      since == toISOString(now - 7 * MsPerDay)
  IN  /\ Connect("fetchLocation", outcome)
      /\ doc' = [results |->
                   IF init.threw \/ init.dbInstance # "open" THEN {}
                   ELSE selectSince(table, targetAuroraId, since)]
      /\ UNCHANGED <<now, hostOffset, table, previous, cronVars, riverVars,
                     geoVars, genVars>>

\* closeDatabase(), lines 199-205
CloseDatabase ==
  /\ dbInstance' = closeDatabase(dbInstance)
  /\ call' = [fn |-> "closeDatabase", threw |-> dbInstance = "closed"]
  /\ UNCHANGED <<now, hostOffset, table, doc, previous, cronVars, riverVars,
                 geoVars, sqliteVars, genVars>>

NextDb ==
  \/ \E outcome \in InitOutcomes : InitializeDatabase(outcome)
  \/ \E dataObject \in DataObjects, outcome \in InitOutcomes :
       \E stmtThrows \in BOOLEAN :
         AppendObject(dataObject, outcome, stmtThrows)
  \/ \E outcome \in InitOutcomes : FetchLocation("A", outcome)
  \/ CloseDatabase

SpecDb == InitDb /\ [][NextDb]_vars

\* the last call obtained the connection from initializeDatabase
GotConnection ==
  call.fn \in {"initializeDatabase", "append", "fetchLocation"} /\ ~call.threw

\* C21: whenever initializeDatabase returns instead of throwing, also inside
\* append and fetchLocation and also after an initialization that failed
\* while creating the table or the index, the connection it returns is open
C21_ConnectionLifecycle == GotConnection => call.returned = "open"

\* between an initializeDatabase that returned and the next closeDatabase,
\* every call returns the connection that one returned
C21_SingleInstance ==
  [][(GotConnection /\ call'.fn # "closeDatabase")
       => (~call'.threw /\ call'.instance = call.instance)]_vars

\* a call returned the connection that an earlier, failed initialization
\* had closed
C21_ClosedReturned == GotConnection /\ call.returned = "closed"

\* the last call was an append of an object with both keys
AppendedWithKeys ==
  call.fn = "append" /\ "dataObject" \in DOMAIN doc /\ ~lacksKey(doc.dataObject)

\* the step is a call of append with an object that lacks a key
KeylessAppend ==
  call'.fn = "append" /\ "dataObject" \in DOMAIN doc'
    /\ lacksKey(doc'.dataObject)

\* UNIQUE (auroraId, fetchTime): no two rows of the table share the pair
UniquePairs(tbl) ==
  \A r, q \in tbl :
    (r.auroraId = q.auroraId /\ r.fetchTime = q.fetchTime) => r = q

\* every call leaves the rows already in the table as they are, and the
\* table with one row per pair: the row of a pair is the first one inserted
FirstRowStays == table \subseteq table' /\ UniquePairs(table')

\* C22: after any sequence of append calls the table holds at most one row
\* per (auroraId, fetchTime) pair and that row is the first one written for
\* the pair; an append of an object without auroraId or fetchTime leaves the
\* table unchanged and does not throw
C22_AppendIdempotence ==
  [][/\ FirstRowStays
     /\ KeylessAppend => (table' = table /\ ~call'.threw)]_vars

\* C22, amended: as above, but an append without a key throws exactly when
\* it is the call that has to open the connection and the initialization
\* fails: the connection is obtained before the keys are looked at
C22_AppendIdempotentUnlessInitThrows ==
  [][/\ FirstRowStays
     /\ KeylessAppend =>
          /\ table' = table
          /\ call'.threw <=> (dbInstance = NULL /\ dbInstance' # "open")]_vars

\* an append carried a pair the table already had, with another value, and
\* was ignored
C22_Witness ==
  /\ AppendedWithKeys
  /\ doc.dataObject \notin table
  /\ \E r \in table : /\ r.auroraId = doc.dataObject.auroraId
                      /\ r.fetchTime = doc.dataObject.fetchTime
  /\ dbInstance = "open"

----------------------------------------------------------------------------
(* generate-datasets: one run of the script, a call of                     *)
(* getTimeSeriesForColumn per dataset and day offset, each reading the     *)
(* clock for itself; the clock moves on between the awaited calls          *)

\* the largest GENERATE_DAYS tried
MaxGenerateDays == 3

\* const datasets = [...] of generate-datasets.js
datasets ==
  << "tempC", "averageWindSpeedKm", "maximumGustKmh", "relativeHumidityPct",
     "precipitationSince9amMM" >>

\* daysToGenerate = [0, -1], then -2 down to -13 pushed
daysToGenerate == <<0, -1>> \o [k \in 1..12 |-> -1 - k]

\* GENERATE_DATASETS.split(",")
EnvDatasets == {<<"tempC">>, <<"tempC", "relativeHumidityPct">>}

\* for (let i = 0; i > 0 - Number(GENERATE_DAYS || 1); i--) push(i)
daysToGenerateEnv(generateDays) == [k \in 1..generateDays |-> 1 - k]

\* firstTimestamp.substring(0, 10), data.startDate.substring(0, 10): the
\* "YYYY-MM-DD" an ISO string starts with, as the day of June 2025
dateSubstr(iso) == (isoLocal(iso) \div MsPerDay) + 1

\* dateSubstr of the document a call returned: of timestamps[0] (dense),
\* of startDate (sparse)
filenameOf(script, clock, data) ==
  IF script = "generate-datasets" THEN dateSubstr(data.timestamps[1])
  ELSE dateSubstr(data.startDate)

\* the clocks of a run: the last millisecond of 2025-06-20 in Brisbane and
\* the midnight after it
GenClocks == {Utc(20, 13, 59, 59, 999), Utc(20, 14, 0, 0, 0)}

\* a reading of location A at noon of the Brisbane day
NoonRow(day) ==
  [auroraId |-> "A",
   generationTime |-> [ms |-> Utc(day, 2, 0, 0, 0), off |-> TzMinutes],
   value |-> "24.3"]

\* the tables a run finds: a reading on each of the last fifteen days, or on
\* each but the 19th
GenTables ==
  { {NoonRow(day) : day \in 7..21}, {NoonRow(day) : day \in (7..21) \ {19}} }

\* the two scripts, with the arrays they build before the loops
GenRuns ==
  {[script |-> "generate-datasets", datasets |-> datasets,
    days |-> daysToGenerate]}
    \cup {[script |-> "generate-datasets-env", datasets |-> ds,
           days |-> daysToGenerateEnv(n)] :
            ds \in EnvDatasets, n \in 1..MaxGenerateDays}

InitGen ==
  /\ now = Utc(20, 13, 59, 59, 999)
  /\ hostOffset = 0
  /\ table \in GenTables
  /\ call = NoCall
  /\ doc = NoDoc
  /\ dbInstance = NULL
  /\ previous = [fn |-> "none"]
  /\ CronIdle /\ RiverIdle /\ GeoIdle /\ SqliteIdle
  /\ outputs = <<>>
  /\ \E run \in GenRuns :
       loop = [pc |-> "loop", script |-> run.script,
               datasets |-> run.datasets, days |-> run.days,
               dataset |-> 1, day |-> 1]

\* time passes while the script awaits a call or a write
ClockPasses ==
  /\ loop.pc = "loop"
  /\ \E t \in GenClocks : t > now /\ now' = t
  /\ UNCHANGED <<hostOffset, table, call, doc, dbInstance, previous, cronVars,
                 riverVars, geoVars, sqliteVars, genVars>>

\* the loops' next position: the inner loop over the days, then the next
\* dataset, then the end of the script
nextIteration(lp) ==
  IF lp.day < Len(lp.days) THEN [lp EXCEPT !.day = lp.day + 1]
  ELSE IF lp.dataset < Len(lp.datasets)
       THEN [lp EXCEPT !.dataset = lp.dataset + 1, !.day = 1]
       ELSE [lp EXCEPT !.pc = "done"]

\* One pass through the body of the inner loop: the call, the check for an
\* empty document (generate-datasets.js only), the file written
GenerateFile ==
  /\ loop.pc = "loop"
  /\ LET column    == loop.datasets[loop.dataset]
         dayOffset == loop.days[loop.day]
         range     == getDayBoundaries(now, dayOffset)
         dense     == loop.script = "generate-datasets"
         entry     == [dataset |-> column, dayOffset |-> dayOffset,
                       clock |-> now, start |-> range.start]
     IN  \E rows \in IF dense THEN denseRows(table, range)
                     ELSE sparseRows(table, range) :
           LET data == IF dense THEN denseDocument(now, hostOffset, rows)
                       ELSE sparseDocument(now, range.start, rows)
               skip == dense /\ Len(data.timestamps) = 0
           IN  /\ call' = [fn |-> IF dense THEN "dense" ELSE "sparse",
                           column |-> column, threw |-> FALSE, clock |-> now,
                           dayStart |-> dayOffset, start |-> range.start,
                           end |-> range.end, rows |-> rows]
               /\ doc' = data
               /\ outputs' =
                    Append(outputs,
                           IF skip THEN entry
                           ELSE [dataset |-> column, dayOffset |-> dayOffset,
                                 clock |-> now, start |-> range.start,
                                 filename |->
                                   filenameOf(loop.script, now, data)])
  /\ dbInstance' = initializeDatabase(dbInstance)
  /\ loop' = nextIteration(loop)
  /\ UNCHANGED <<now, hostOffset, table, previous, cronVars, riverVars,
                 geoVars, sqliteVars>>

NextGen == ClockPasses \/ GenerateFile

SpecGen == InitGen /\ [][NextGen]_vars

\* the civil date (day of June 2025, Brisbane) a call resolved its offset to
ResolvedDate(e) == dateSubstr(formatInTimeZone(parseISO(e.start)))

\* the passes of the loop made so far for a dataset
PassesOf(column) == {k \in DOMAIN outputs : outputs[k].dataset = column}

Written(k) == "filename" \in DOMAIN outputs[k]

ResolvedDates(column) == {ResolvedDate(outputs[k]) : k \in PassesOf(column)}

\* the dataset's passes all done
DatasetDone(column) ==
  Cardinality(PassesOf(column)) = Len(loop.days)

\* C23: within one run, distinct day offsets of the same dataset resolve to
\* distinct civil dates, no file <dataset>/<date>.json is written twice, and
\* the dates of a dataset's offsets leave no day out between them, even when
\* local midnight passes between two calls
C23_PerRunDayCoverage ==
  \A column \in Range(loop.datasets) :
    /\ \A a, b \in PassesOf(column) :
         a # b =>
           /\ ResolvedDate(outputs[a]) # ResolvedDate(outputs[b])
           /\ (Written(a) /\ Written(b))
                => outputs[a].filename # outputs[b].filename
    /\ DatasetDone(column) =>
         \A a, b \in PassesOf(column) :
           \A date \in ResolvedDate(outputs[a])..ResolvedDate(outputs[b]) :
             date \in ResolvedDates(column)

\* the civil date the clock showed at a pass
ClockDate(e) == dateSubstr(formatInTimeZone(e.clock))

\* every call resolves its offset against the clock it reads itself: the
\* date is the clock's civil date plus the offset, and a file written is
\* named after it; a run whose calls all read the clock on one civil day
\* covers the requested days once each
C23_ResolvedAgainstOwnClock ==
  \A k \in DOMAIN outputs :
    /\ ResolvedDate(outputs[k]) = ClockDate(outputs[k]) + outputs[k].dayOffset
    /\ Written(k) => outputs[k].filename = ResolvedDate(outputs[k])

\* midnight passed between the calls for offsets 0 and -1 of one dataset,
\* and both wrote the file of the same date
C23_WrittenTwice ==
  \E a, b \in DOMAIN outputs :
    /\ a # b /\ outputs[a].dataset = outputs[b].dataset
    /\ Written(a) /\ Written(b)
    /\ outputs[a].filename = outputs[b].filename

============================================================================
